---- MODULE Spec2Model ----
(***************************************************************************)
(* Verification-code service of Email-verification-Saas.                   *)
(*                                                                         *)
(* The repository holds two builds of the same server:                     *)
(*   src/unnamed/part_000  (TTL 2 min, INSERT without callback, /verify-   *)
(*                          code without validation, /health with retry)   *)
(*   src/unnamed/part_001  (TTL 5 min, INSERT with callback, /verify-code  *)
(*                          with validation, /health without retry)        *)
(* The variable impl fixes which build runs; every behaviour is a run of   *)
(* one of them.                                                            *)
(*                                                                         *)
(* Time is counted in minutes (one unit = 60000 ms of Date.now()); the     *)
(* comparisons of the code are kept as they are written (strict < and >).  *)
(* A JavaScript string is a sequence of one-character strings; a request   *)
(* field is a JavaScript value: undefined, or a string.                    *)
(* sqlite3 statements and nodemailer calls complete asynchronously, in any *)
(* order (node-sqlite3 runs statements in parallel mode by default).       *)
(***************************************************************************)
EXTENDS Integers, Sequences, FiniteSets, TLC

VARIABLES impl, now, store, issues, mailbox, verify, sweeps, crashed, health, purge

vars == <<impl, now, store, issues, mailbox, verify, sweeps, crashed, health, purge>>

\* what the verification-code handlers and the reaper never touch
others == <<health, purge>>
aux == <<crashed, others>>

(* ------------------------------ bounds --------------------------------- *)
MaxIssues == 1       \* POST /request-code requests in a behaviour of Spec
MaxIssuesOnly == 2   \* POST /request-code requests in a behaviour of SpecIssue
MaxHealth == 2       \* concurrent GET /health requests
MaxIssuesRace == 1   \* POST /request-code requests in a behaviour of SpecRace
MaxLag == 2          \* minutes a SELECT may stay pending in SpecRace
MaxPurgeTime == 3    \* latest created_at of a row in a behaviour of SpecPurge
MaxSweeps == 2       \* DELETEs applied in a behaviour of SpecPurge

(* --------------------------- JavaScript values ------------------------- *)
Undefined == [t |-> "undefined", s |-> <<>>]
Str(chars) == [t |-> "string", s |-> chars]

\* !x for a request field: undefined and "" are falsy
Falsy(v) == v.t = "undefined" \/ v.s = <<>>

LowerChar(c) ==
  CASE c = "A" -> "a" [] c = "B" -> "b" [] c = "C" -> "c"
    [] c = "D" -> "d" [] c = "E" -> "e" [] c = "F" -> "f"
    [] OTHER -> c

UpperChar(c) ==
  CASE c = "a" -> "A" [] c = "b" -> "B" [] c = "c" -> "C"
    [] c = "d" -> "D" [] c = "e" -> "E" [] c = "f" -> "F"
    [] OTHER -> c

\* String.prototype.toLowerCase / toUpperCase
ToLowerCase(chars) == [i \in DOMAIN chars |-> LowerChar(chars[i])]
ToUpperCase(chars) == [i \in DOMAIN chars |-> UpperChar(chars[i])]

HexDigits == <<"0","1","2","3","4","5","6","7","8","9","a","b","c","d","e","f">>

\* Buffer.toString('hex'): two lowercase hex digits per byte
ToHex(bytes) ==
  [i \in 1..(2 * Len(bytes)) |->
     IF i % 2 = 1 THEN HexDigits[(bytes[(i + 1) \div 2] \div 16) + 1]
                  ELSE HexDigits[(bytes[i \div 2] % 16) + 1]]

\* the values crypto.randomBytes(3) takes in the model
RandomBytes == { <<0, 10, 255>>, <<18, 52, 86>> }

generateCode(bytes) == ToUpperCase(ToHex(bytes))

(* ------------------------------ the builds ----------------------------- *)
Impls == {"part_000", "part_001"}

\* validity window in minutes: 2 * 60 * 1000 ms and 5 * 60 * 1000 ms
TTL == IF impl = "part_000" THEN 2 ELSE 5

\* the clock runs from 0 to one minute past the TTL of a code issued at 0
MaxTime == TTL + 1

(* ------------------------------- inputs -------------------------------- *)
Company == Str(<<"C">>)
Username == Str(<<"u">>)
Email == Str(<<"A", "b">>)

IssueBodies ==
  { [company |-> Company, username |-> Username, email |-> Email],
    [company |-> Undefined, username |-> Username, email |-> Email],
    [company |-> Str(<<>>), username |-> Username, email |-> Email],
    [company |-> Company, username |-> Undefined, email |-> Email],
    [company |-> Company, username |-> Str(<<>>), email |-> Email],
    [company |-> Company, username |-> Username, email |-> Undefined],
    [company |-> Company, username |-> Username, email |-> Str(<<>>)] }

Code1 == generateCode(<<0, 10, 255>>)
Code2 == generateCode(<<18, 52, 86>>)

VerifyBodies ==
  { [email |-> Str(<<"a", "B">>), code |-> Str(Code1)],
    [email |-> Str(<<"a", "b">>), code |-> Str(Code2)],
    [email |-> Str(<<"a", "b">>), code |-> Str(ToLowerCase(Code1))],
    [email |-> Str(<<"c">>), code |-> Str(Code1)],
    [email |-> Undefined, code |-> Str(Code1)],
    [email |-> Str(<<"a", "b">>), code |-> Undefined] }

(* ----------------------------- HTTP responses -------------------------- *)
NoRes == [status |-> 0, json |-> FALSE, valid |-> FALSE, message |-> ""]

\* res.status(s).json({ message })
Json(s, m) == [status |-> s, json |-> TRUE, valid |-> FALSE, message |-> m]

\* res.status(s).json({ valid, message })
JsonValid(s, v, m) == [status |-> s, json |-> TRUE, valid |-> v, message |-> m]

\* express' default error handler, reached when a handler throws
Thrown == [status |-> 500, json |-> FALSE, valid |-> FALSE, message |-> "TypeError"]

MsgRequired == "Company, username, and email are required."
MsgStoreFailed == "Failed to store code."
MsgMailFailed == "Email failed to send."
MsgSent == "Verification code sent."
MsgVerifyRequired == "Email and code are required."
MsgDbError == "Database error."
\* (part_001 prefixes these two messages with an emoji, written here in ASCII)
MsgValid == IF impl = "part_000" THEN "Code is valid." ELSE "OK Code is valid!"
MsgInvalid ==
  IF impl = "part_000" THEN "Invalid or expired code."
                       ELSE "X Invalid or expired code."

(* ------------------------------ CodeStore ------------------------------ *)
\* mutant: one code per email, the INSERT replaces the email's earlier rows
InsertReplacing(st, id, company, username, email, code, createdAt) ==
  { r \in st : r.email # email }
    \cup { [id |-> id, company |-> company, username |-> username,
             email |-> email, code |-> code, created_at |-> createdAt] }

\* INSERT INTO verification_codes (...) VALUES (?, ?, ?, ?, ?).  The table has no
\* uniqueness constraint: every INSERT adds a row of its own.  No code reads the
\* AUTOINCREMENT id, so a row is identified by the request that inserted it.
Insert(st, id, company, username, email, code, createdAt) ==
  st \cup { [id |-> id, company |-> company, username |-> username,
             email |-> email, code |-> code, created_at |-> createdAt] }

\* mutant: the window is closed on the wrong side (created_at >= ?)
SelectValidInclusive(st, email, code, expiry) ==
  { r \in st : /\ r.email = email
               /\ code.t = "string" /\ r.code = code.s
               /\ r.created_at >= expiry }

\* mutant: the SELECT leaves expiry to the reaper (no created_at condition)
SelectValidNoWindow(st, email, code, expiry) ==
  { r \in st : /\ r.email = email
               /\ code.t = "string" /\ r.code = code.s }

\* SELECT * FROM verification_codes WHERE email = ? AND code = ? AND created_at > ?
\* (an undefined parameter is bound as NULL, and `code = NULL` selects no row)
SelectValid(st, email, code, expiry) ==
  { r \in st : /\ r.email = email
               /\ code.t = "string" /\ r.code = code.s
               /\ r.created_at > expiry }

\* mutant: the DELETE spares the rows of the minute before the expiry
PurgeOlderThanLate(st, expiry) == { r \in st : ~(r.created_at < expiry - 1) }

\* mutant: a DELETE removes the oldest of the rows it selects (LIMIT 1)
PurgeOldestOnly(st, expiry) ==
  LET old == { r \in st : r.created_at < expiry }
  IN IF old = {} THEN st
     ELSE st \ { CHOOSE r \in old : \A q \in old : r.created_at <= q.created_at }

\* mutant: the reaper's TTL is two minutes shorter than the TTL of /verify-code
PurgeOlderThanShortTTL(st, expiry) == { r \in st : ~(r.created_at < expiry + 2) }

\* DELETE FROM verification_codes WHERE created_at < ?
PurgeOlderThan(st, expiry) == { r \in st : ~(r.created_at < expiry) }

(* ------------------------ GET /health requests -------------------------- *)
HealthReqs == 1 .. MaxHealth

\* verifySMTPWithRetry(3, 1000): the first argument
Retries == 3

NoReport == [status |-> 0, state |-> "", http |-> "", database |-> "", smtp |-> ""]

\* a /health request: pc is where its handler stands; n is the argument of the
\* running attempt(n); dbErr, outcomes (the result of every handshake so far),
\* delays (timers set), resolved (calls of verifySMTP's resolve) and sent
\* (responses written) record what has happened
HealthIdle ==
  [pc |-> "idle", dbErr |-> FALSE, dbStatus |-> "", n |-> 0, outcomes |-> <<>>,
   delays |-> 0, smtpStatus |-> "", resolved |-> 0, sent |-> 0, res |-> NoReport]

(* --------------------------- failed statements ------------------------- *)
\* A statement that fails calls its callback with the error.  Without a
\* callback node-sqlite3 emits an 'error' event on the statement; the event has
\* no listener, so Node throws it as an uncaught error and the process ends
\* (neither build installs an uncaughtException handler).
Uncaught(ok, hasCallback) == ~ok /\ ~hasCallback

(* ------------------------- purge, taken alone -------------------------- *)
NoPurge == [st0 |-> {}, cur |-> {}, applied |-> <<>>]

(* ------------------------------- Init ---------------------------------- *)
Idle == [st |-> "idle", body |-> [email |-> Undefined, code |-> Undefined],
         at |-> 0, after |-> {}, queried |-> FALSE, overtaken |-> FALSE,
         sent |-> 0, res |-> NoRes]

Init ==
  /\ impl \in Impls
  /\ now = 0
  /\ store = {}
  /\ issues = <<>>
  /\ mailbox = {}
  /\ verify = Idle
  /\ sweeps = {}
  /\ crashed = FALSE
  /\ health = [h \in HealthReqs |-> HealthIdle]
  /\ purge = NoPurge

(* ------------------------------- clock --------------------------------- *)
\* One minute passes.  A SELECT is answered within the minute in which it was
\* submitted (sqlite answers in milliseconds), and verify keeps an answered
\* request until the clock moves on.
Tick ==
  /\ now < MaxTime
  /\ verify.st # "pending"
  /\ now' = now + 1
  /\ verify' = Idle
  /\ ~crashed
  /\ UNCHANGED <<aux, impl, store, issues, mailbox, sweeps>>

\* One minute passes while the SELECT of a /verify-code request is pending
\* (the statement waits for the database connection behind other statements).
TickLate ==
  /\ now < MaxTime
  /\ verify.st = "pending"
  /\ now - verify.at < MaxLag
  /\ now' = now + 1
  /\ ~crashed
  /\ UNCHANGED <<aux, impl, store, issues, mailbox, verify, sweeps>>

(* ------------------------- POST /request-code -------------------------- *)
Rejected(body) ==
  [body |-> body, normalizedEmail |-> <<>>, code |-> <<>>, createdAt |-> 0,
   insert |-> "none", mail |-> "none",
   sent |-> 1, res |-> Json(400, MsgRequired)]

\* mutant: the email is kept as it was typed
AcceptedRaw(body, code, createdAt, mail) ==
  [body |-> body, normalizedEmail |-> body.email.s, code |-> code,
   createdAt |-> createdAt, insert |-> "pending", mail |-> mail,
   sent |-> 0, res |-> NoRes]

Accepted(body, code, createdAt, mail) ==
  [body |-> body, normalizedEmail |-> ToLowerCase(body.email.s), code |-> code,
   createdAt |-> createdAt, insert |-> "pending", mail |-> mail,
   sent |-> 0, res |-> NoRes]

\* mutant: the email is not checked
RequestInvalidNoEmail(body) == Falsy(body.company) \/ Falsy(body.username)

\* if (!company || !username || !email)
RequestInvalid(body) ==
  Falsy(body.company) \/ Falsy(body.username) \/ Falsy(body.email)

\* part_000 calls sendMail right after db.run; part_001 calls it from the
\* INSERT's callback
MailAtRequest == impl = "part_000"

RequestCode(limit, body, bytes) ==
  /\ Len(issues) < limit
  /\ IF RequestInvalid(body)
       THEN /\ issues' = Append(issues, Rejected(body))
            /\ mailbox' = mailbox
       ELSE LET code == generateCode(bytes)
                req == Accepted(body, code, now,
                                IF MailAtRequest THEN "pending" ELSE "none")
            IN /\ issues' = Append(issues, req)
               /\ mailbox' = IF MailAtRequest
                               THEN mailbox \cup {[to |-> req.normalizedEmail, code |-> code]}
                               ELSE mailbox
  /\ ~crashed
  /\ UNCHANGED <<aux, impl, now, store, verify, sweeps>>

\* mutant: the callback answers the INSERT's error and goes on to send the mail
AfterInsertNoReturn(req, ok) ==
  IF impl = "part_000" THEN req
  ELSE IF ok THEN [req EXCEPT !.mail = "pending"]
  ELSE [req EXCEPT !.res = Json(500, MsgStoreFailed), !.sent = @ + 1,
                   !.mail = "pending"]

\* what the INSERT's callback does with the request (part_001 only)
AfterInsert(req, ok) ==
  IF impl = "part_000" THEN req
  ELSE IF ok THEN [req EXCEPT !.mail = "pending"]
  ELSE [req EXCEPT !.res = Json(500, MsgStoreFailed), !.sent = @ + 1]

\* the INSERT statement of request i runs
RunInsert(i, ok) ==
  /\ i \in DOMAIN issues
  /\ issues[i].insert = "pending"
  /\ LET req == issues[i]
     IN /\ store' = IF ok
                       THEN Insert(store, i, req.body.company.s, req.body.username.s,
                                   req.normalizedEmail, req.code, req.createdAt)
                       ELSE store
        /\ issues' = [issues EXCEPT ![i] =
                        AfterInsert([req EXCEPT !.insert = IF ok THEN "ok" ELSE "failed"], ok)]
        /\ mailbox' = IF impl = "part_001" /\ ok
                        THEN mailbox \cup {[to |-> req.normalizedEmail, code |-> req.code]}
                        ELSE mailbox
  /\ ~crashed
  /\ crashed' = Uncaught(ok, impl = "part_001")
  /\ UNCHANGED <<others, impl, now, verify, sweeps>>

\* mutant: a failed delivery rolls the request's row back
SendMailCallbackRollback(i, ok) ==
  /\ i \in DOMAIN issues
  /\ issues[i].mail = "pending"
  /\ issues' = [issues EXCEPT ![i].mail = IF ok THEN "ok" ELSE "failed",
                              ![i].sent = @ + 1,
                              ![i].res = IF ok THEN Json(200, MsgSent)
                                               ELSE Json(500, MsgMailFailed)]
  /\ store' = IF ok THEN store ELSE { r \in store : r.id # i }
  /\ ~crashed
  /\ UNCHANGED <<aux, impl, now, mailbox, verify, sweeps>>

\* transporter.sendMail's callback of request i
SendMailCallback(i, ok) ==
  /\ i \in DOMAIN issues
  /\ issues[i].mail = "pending"
  /\ issues' = [issues EXCEPT ![i].mail = IF ok THEN "ok" ELSE "failed",
                              ![i].sent = @ + 1,
                              ![i].res = IF ok THEN Json(200, MsgSent)
                                               ELSE Json(500, MsgMailFailed)]
  /\ ~crashed
  /\ UNCHANGED <<aux, impl, now, store, mailbox, verify, sweeps>>

(* -------------------------- POST /verify-code -------------------------- *)
\* if (!email || !code), part_001 only
VerifyInvalid(body) ==
  impl = "part_001" /\ (Falsy(body.email) \/ Falsy(body.code))

\* issues answered with success so far
Answered == { i \in DOMAIN issues : issues[i].res = Json(200, MsgSent) }

VerifyCode(body) ==
  /\ verify.st # "pending"
  /\ verify' =
       IF VerifyInvalid(body)
         THEN [st |-> "done", body |-> body, at |-> now, after |-> Answered,
               queried |-> FALSE, overtaken |-> FALSE, sent |-> 1,
               res |-> JsonValid(400, FALSE, MsgVerifyRequired)]
       ELSE IF body.email.t = "undefined"
         \* email.toLowerCase() throws before db.get is called
         THEN [st |-> "done", body |-> body, at |-> now, after |-> Answered,
               queried |-> FALSE, overtaken |-> FALSE, sent |-> 1, res |-> Thrown]
       ELSE [st |-> "pending", body |-> body, at |-> now, after |-> Answered,
             queried |-> TRUE, overtaken |-> FALSE, sent |-> 0, res |-> NoRes]
  /\ ~crashed
  /\ UNCHANGED <<aux, impl, now, store, issues, mailbox, sweeps>>

\* the rows the SELECT of the pending request finds in st
Rows(st) ==
  SelectValid(st, ToLowerCase(verify.body.email.s), verify.body.code, verify.at - TTL)

\* mutant: the handler tells an unknown email from a wrong or expired code
VerifyResponseLeaky(err, row) ==
  IF err THEN JsonValid(500, FALSE, MsgDbError)
  ELSE IF row THEN JsonValid(200, TRUE, MsgValid)
  ELSE IF \E r \in store : r.email = ToLowerCase(verify.body.email.s)
    THEN JsonValid(400, FALSE, MsgInvalid)
  ELSE JsonValid(404, FALSE, "Unknown email.")

\* db.get's callback (err, row)
VerifyResponse(err, row) ==
  IF err THEN JsonValid(500, FALSE, MsgDbError)
  ELSE IF row THEN JsonValid(200, TRUE, MsgValid)
  ELSE JsonValid(400, FALSE, MsgInvalid)

\* mutant: a code is consumed by its first successful redemption
GetCallbackConsuming(err) ==
  /\ verify.st = "pending"
  /\ verify' = [verify EXCEPT !.st = "done", !.sent = @ + 1,
                              !.res = VerifyResponse(err, Rows(store) # {})]
  /\ store' = IF err THEN store ELSE store \ Rows(store)
  /\ ~crashed
  /\ UNCHANGED <<aux, impl, now, issues, mailbox, sweeps>>

GetCallback(err) ==
  /\ verify.st = "pending"
  /\ verify' = [verify EXCEPT !.st = "done", !.sent = @ + 1,
                              !.res = VerifyResponse(err, Rows(store) # {})]
  /\ ~crashed
  /\ UNCHANGED <<aux, impl, now, store, issues, mailbox, sweeps>>

(* ------------------------------- reaper -------------------------------- *)
\* setInterval callback: expiry = Date.now() - TTL; db.run(DELETE ..., expiry)
\* (a tick before now = TTL has a negative expiry and deletes nothing from a
\* store that is empty at time 0: those ticks are left out; the interval is a
\* minute, so at most one DELETE is in flight)
ReaperTick ==
  /\ now >= TTL
  /\ sweeps = {}
  /\ sweeps' = sweeps \cup {now - TTL}
  /\ ~crashed
  /\ UNCHANGED <<aux, impl, now, store, issues, mailbox, verify>>

\* the DELETE statement with parameter expiry runs; overtaken records that it
\* ran before the SELECT of a /verify-code request made before the sweep's
\* tick (the SELECT's own bound verify.at - TTL is then smaller than expiry)
RunDelete(expiry, ok) ==
  /\ expiry \in sweeps
  /\ sweeps' = sweeps \ {expiry}
  /\ store' = IF ok THEN PurgeOlderThan(store, expiry) ELSE store
  /\ verify' = IF ok /\ verify.st = "pending" /\ expiry > verify.at - TTL
                 THEN [verify EXCEPT !.overtaken = TRUE]
                 ELSE verify
  /\ ~crashed
  /\ crashed' = Uncaught(ok, FALSE)
  /\ UNCHANGED <<others, impl, now, issues, mailbox>>

(* ------------------------------ GET /health ---------------------------- *)
\* mutant: the report looks at the transport alone
HealthReportSmtpOnly(dbStatus, smtpStatus) ==
  LET allOk == smtpStatus = "ok"
  IN [status |-> IF allOk THEN 200 ELSE 500, state |-> IF allOk THEN "ok" ELSE "error",
      http |-> "ok", database |-> dbStatus, smtp |-> smtpStatus]

\* allOk, res.status(...) and the JSON body (the timestamp is left out)
HealthReport(dbStatus, smtpStatus) ==
  LET allOk == dbStatus = "ok" /\ smtpStatus = "ok"
  IN [status |-> IF allOk THEN 200 ELSE 500, state |-> IF allOk THEN "ok" ELSE "error",
      http |-> "ok", database |-> dbStatus, smtp |-> smtpStatus]

\* GET /health arrives and db.get('SELECT 1') is submitted
HealthRequest(h) ==
  /\ health[h].pc = "idle"
  /\ health' = [health EXCEPT ![h].pc = "db"]
  /\ ~crashed
  /\ UNCHANGED <<impl, now, store, issues, mailbox, verify, sweeps, crashed, purge>>

\* the callback of SELECT 1 resolves dbStatus; the handler goes on to the
\* transport probe: attempt(retries) in part_000, one transporter.verify in
\* part_001
ProbeCallback(h, err) ==
  /\ health[h].pc = "db"
  /\ health' = [health EXCEPT ![h].pc = "smtp",
                              ![h].dbErr = err,
                              ![h].dbStatus = IF err THEN "error" ELSE "ok",
                              ![h].n = IF impl = "part_000" THEN Retries ELSE 0]
  /\ ~crashed
  /\ UNCHANGED <<impl, now, store, issues, mailbox, verify, sweeps, crashed, purge>>

\* mutant: one more attempt before giving up
VerifyOutcomeOneMore(n, success) ==
  IF impl = "part_001" THEN (IF success THEN "ok" ELSE "error")
  ELSE IF success THEN "ok"
  ELSE IF n < 0 THEN "error"
  ELSE "retry"

\* what the callback of transporter.verify does in attempt(n)
VerifyOutcome(n, success) ==
  IF impl = "part_001" THEN (IF success THEN "ok" ELSE "error")
  ELSE IF success THEN "ok"
  ELSE IF n <= 0 THEN "error"
  ELSE "retry"

\* resolve(smtpStatus): the first call settles the promise, the handler
\* computes allOk and writes the response
Resolved(hr, smtpStatus) ==
  IF hr.resolved > 0 THEN [hr EXCEPT !.resolved = @ + 1]
  ELSE [hr EXCEPT !.pc = "done", !.smtpStatus = smtpStatus, !.resolved = 1,
                  !.sent = @ + 1, !.res = HealthReport(hr.dbStatus, smtpStatus)]

\* mutant: when the attempts are used up the promise is left unsettled
VerifyCallbackNoVerdict(h, success) ==
  /\ health[h].pc = "smtp"
  /\ LET hr == [health[h] EXCEPT !.outcomes = Append(@, success)]
     IN health' = [health EXCEPT ![h] =
                     IF success THEN Resolved(hr, "ok")
                     ELSE IF hr.n <= 0 THEN [hr EXCEPT !.pc = "unsettled"]
                     ELSE [hr EXCEPT !.pc = "delay", !.delays = @ + 1]]
  /\ ~crashed
  /\ UNCHANGED <<impl, now, store, issues, mailbox, verify, sweeps, crashed, purge>>

\* the callback of transporter.verify
VerifyCallback(h, success) ==
  /\ health[h].pc = "smtp"
  /\ LET hr == [health[h] EXCEPT !.outcomes = Append(@, success)]
         out == VerifyOutcome(hr.n, success)
     IN health' = [health EXCEPT ![h] =
                     IF out = "retry" THEN [hr EXCEPT !.pc = "delay", !.delays = @ + 1]
                     ELSE Resolved(hr, out)]
  /\ ~crashed
  /\ UNCHANGED <<impl, now, store, issues, mailbox, verify, sweeps, crashed, purge>>

\* setTimeout(() => attempt(n - 1), delay) fires
TimerFires(h) ==
  /\ health[h].pc = "delay"
  /\ health' = [health EXCEPT ![h].pc = "smtp", ![h].n = @ - 1]
  /\ ~crashed
  /\ UNCHANGED <<impl, now, store, issues, mailbox, verify, sweeps, crashed, purge>>

(* -------------------------------- Next --------------------------------- *)
DoRequestCode ==
  \E body \in IssueBodies, bytes \in RandomBytes : RequestCode(MaxIssues, body, bytes)
DoRequestCodeOnly ==
  \E body \in IssueBodies, bytes \in RandomBytes : RequestCode(MaxIssuesOnly, body, bytes)
DoRunInsert == \E i \in DOMAIN issues, ok \in BOOLEAN : RunInsert(i, ok)
DoSendMailCallback == \E i \in DOMAIN issues, ok \in BOOLEAN : SendMailCallback(i, ok)
DoVerifyCode == \E body \in VerifyBodies : VerifyCode(body)
DoGetCallback == \E err \in BOOLEAN : GetCallback(err)
DoRunDelete == \E expiry \in sweeps, ok \in BOOLEAN : RunDelete(expiry, ok)

Next ==
  \/ Tick
  \/ DoRequestCode
  \/ DoRunInsert
  \/ DoSendMailCallback
  \/ DoVerifyCode
  \/ DoGetCallback
  \/ ReaperTick
  \/ DoRunDelete

Spec == Init /\ [][Next]_vars

\* issuance and expiry alone, with more requests and no /verify-code traffic
NextIssue ==
  \/ Tick
  \/ DoRequestCodeOnly
  \/ DoRunInsert
  \/ DoSendMailCallback
  \/ ReaperTick
  \/ DoRunDelete

SpecIssue == Init /\ [][NextIssue]_vars

\* a /verify-code request whose SELECT runs late, with well-formed requests
RaceIssueBodies == { body \in IssueBodies : ~RequestInvalid(body) }
RaceVerifyBodies ==
  { body \in VerifyBodies :
      /\ ~Falsy(body.email) /\ ~Falsy(body.code)
      /\ ToLowerCase(body.email.s) = ToLowerCase(Email.s)
      /\ body.code.s \in {Code1, Code2} }
RaceBytes == { <<0, 10, 255>> }

DoRequestCodeRace ==
  \E body \in RaceIssueBodies, bytes \in RaceBytes :
    RequestCode(MaxIssuesRace, body, bytes)
DoVerifyCodeRace == \E body \in RaceVerifyBodies : VerifyCode(body)

NextRace ==
  \/ Tick
  \/ TickLate
  \/ DoRequestCodeRace
  \/ DoRunInsert
  \/ DoSendMailCallback
  \/ DoVerifyCodeRace
  \/ DoGetCallback
  \/ ReaperTick
  \/ DoRunDelete

SpecRace == Init /\ [][NextRace]_vars

\* DELETEs alone, applied one after the other to a store of rows of any age
PurgeTimes == 0 .. MaxPurgeTime
PurgeCutoffs == 0 .. (MaxPurgeTime + 1)
PurgeStores ==
  { UNION { Insert({}, t + 1, Company.s, Username.s, ToLowerCase(Email.s), Code1, t) : t \in T } :
      T \in SUBSET PurgeTimes }

InitPurge ==
  /\ impl \in Impls
  /\ now = 0
  /\ store = {}
  /\ issues = <<>>
  /\ mailbox = {}
  /\ verify = Idle
  /\ sweeps = {}
  /\ crashed = FALSE
  /\ health = [h \in HealthReqs |-> HealthIdle]
  /\ purge \in { [st0 |-> st, cur |-> st, applied |-> <<>>] : st \in PurgeStores }

\* db.run(DELETE ... WHERE created_at < ?, expiry) runs on the store
Sweep(expiry) ==
  /\ Len(purge.applied) < MaxSweeps
  /\ purge' = [purge EXCEPT !.cur = PurgeOlderThan(@, expiry),
                            !.applied = Append(@, expiry)]
  /\ UNCHANGED <<impl, now, store, issues, mailbox, verify, sweeps, crashed, health>>

DoSweep == \E expiry \in PurgeCutoffs : Sweep(expiry)

NextPurge == DoSweep

SpecPurge == InitPurge /\ [][NextPurge]_vars

\* GET /health alone
DoHealthRequest == \E h \in HealthReqs : HealthRequest(h)
DoProbeCallback == \E h \in HealthReqs, err \in BOOLEAN : ProbeCallback(h, err)
DoVerifyCallback == \E h \in HealthReqs, success \in BOOLEAN : VerifyCallback(h, success)
DoTimerFires == \E h \in HealthReqs : TimerFires(h)

NextHealth ==
  \/ DoHealthRequest
  \/ DoProbeCallback
  \/ DoVerifyCallback
  \/ DoTimerFires

SpecHealth == Init /\ [][NextHealth]_vars

\* every probe, handshake and timer of a request in flight calls back
HealthFairness ==
  \A h \in HealthReqs :
    /\ WF_vars(\E err \in BOOLEAN : ProbeCallback(h, err))
    /\ WF_vars(\E success \in BOOLEAN : VerifyCallback(h, success))
    /\ WF_vars(TimerFires(h))

SpecHealthLive == Init /\ [][NextHealth]_vars /\ HealthFairness

\* the three routes together, with one GET /health request and no clock
NextServe ==
  \/ DoRequestCode
  \/ DoRunInsert
  \/ DoSendMailCallback
  \/ DoVerifyCode
  \/ DoGetCallback
  \/ HealthRequest(1)
  \/ \E err \in BOOLEAN : ProbeCallback(1, err)
  \/ \E success \in BOOLEAN : VerifyCallback(1, success)
  \/ TimerFires(1)

SpecServe == Init /\ [][NextServe]_vars

(***************************************************************************)
(*                               Claims                                    *)
(***************************************************************************)
\* the response carries valid: true
Valid(res) == res.json /\ res.valid

\* the response reports a storage error
StorageError(res) == res = JsonValid(500, FALSE, MsgDbError)

\* a /verify-code request has just been answered
Answered1 == verify.st # "done" /\ verify'.st = "done"

\* both fields of a /verify-code body are given
Given(body) == body.email.t = "string" /\ body.code.t = "string"

\* row r is what the claim calls a match for body at time t: same email up to
\* letter case, same code exactly, issued less than TTL before t
Match(r, body, t) ==
  /\ Given(body)
  /\ r.email = ToLowerCase(body.email.s)
  /\ r.code = body.code.s
  /\ r.created_at > t - TTL

\* request i was accepted and asks for the email and code of body
Issued(i, body) ==
  /\ issues[i].insert # "none"
  /\ Given(body)
  /\ ToLowerCase(issues[i].body.email.s) = ToLowerCase(body.email.s)
  /\ issues[i].code = body.code.s

\* the row request i inserted is in the store
Row(i) ==
  [id |-> i, company |-> issues[i].body.company.s, username |-> issues[i].body.username.s,
   email |-> issues[i].normalizedEmail, code |-> issues[i].code,
   created_at |-> issues[i].createdAt]

(* C1: a /verify-code request answered without a storage error is answered    *)
(* valid=true exactly when the store then holds a row with the lowercased     *)
(* email, the same code and created_at > now - TTL; when both fields are      *)
(* given and there is no such row the answer is a JSON body with valid=false. *)
C1_ValidIffMatch ==
  [][ (Answered1 /\ ~StorageError(verify'.res)) =>
        LET m == \E r \in store : Match(r, verify'.body, verify'.at)
        IN /\ Valid(verify'.res) <=> m
           /\ (Given(verify'.body) /\ ~m) => (verify'.res.json /\ ~verify'.res.valid) ]_vars

C1_Witness ==
  /\ verify.st = "done" /\ Valid(verify.res)
  /\ \E r \in store : Match(r, verify.body, verify.at) /\ r.email # verify.body.email.s

(* C2: a /verify-code request made after a /request-code request was answered *)
(* with success, with that email in any letter case and the issued code,      *)
(* less than TTL after issuance, is answered valid=true.                      *)
C2_RedeemAfterSuccess ==
  (/\ verify.st = "done"
   /\ ~StorageError(verify.res)
   /\ \E i \in verify.after :
         Issued(i, verify.body) /\ verify.at - issues[i].createdAt < TTL)
  => Valid(verify.res)

(* C3: a /verify-code request made TTL or more after every issuance of its    *)
(* email and code is never answered valid=true, swept or not; and a code that *)
(* is expired stays expired.                                                  *)
C3_ExpiredAtRequest(body, t) ==
  /\ \E i \in DOMAIN issues : Issued(i, body)
  /\ \A i \in DOMAIN issues : Issued(i, body) => t - issues[i].createdAt >= TTL

C3_ExpiredInvalid ==
  [][ /\ (Answered1 /\ C3_ExpiredAtRequest(verify'.body, verify'.at)) => ~Valid(verify'.res)
      /\ \A i \in DOMAIN issues :
           (issues[i].insert # "none" /\ now - issues[i].createdAt >= TTL)
             => (i \in DOMAIN issues' /\ now' - issues'[i].createdAt >= TTL) ]_vars

C3_Witness ==
  /\ verify.st = "done" /\ verify.res = JsonValid(400, FALSE, MsgInvalid)
  /\ C3_ExpiredAtRequest(verify.body, verify.at)
  /\ \E i \in DOMAIN issues : Issued(i, verify.body) /\ Row(i) \in store

(* C4 as claimed: once a sweep that ticked TTL or more after a row's          *)
(* created_at has run, the row is gone.                                       *)
C4_SweptOnceExpired ==
  [][ \A expiry \in sweeps :
        RunDelete(expiry, TRUE) => \A r \in store' : ~(r.created_at <= expiry) ]_vars

(* C4 amended: once the DELETE of a sweep that ticked MORE than TTL after a   *)
(* row's created_at has succeeded, the row is gone (a row exactly TTL old at  *)
(* the tick is expired for /verify-code and survives that sweep).             *)
C4_SweptOncePastTTL ==
  [][ \A expiry \in sweeps :
        RunDelete(expiry, TRUE) =>
          /\ \A r \in store' : ~(r.created_at < expiry)
          /\ \A r \in store : r.created_at >= expiry => r \in store' ]_vars

C4_Witness ==
  \E i \in DOMAIN issues :
    /\ issues[i].insert = "ok" /\ Row(i) \notin store
    /\ now - issues[i].createdAt > TTL

(* C5: wrong code, unknown email and expired code get one and the same        *)
(* response: 400, valid=false, the invalid-or-expired message.                *)
C5_WrongCode(body, t) ==
  /\ \E r \in store : r.email = ToLowerCase(body.email.s)
                      /\ ~(body.code.t = "string" /\ r.code = body.code.s)
  /\ ~\E r \in store : Match(r, body, t)

C5_NoRecords(body) == ~\E r \in store : r.email = ToLowerCase(body.email.s)

C5_Expired(body, t) ==
  /\ \E r \in store : /\ r.email = ToLowerCase(body.email.s)
                      /\ body.code.t = "string" /\ r.code = body.code.s
                      /\ ~(r.created_at > t - TTL)
  /\ ~\E r \in store : Match(r, body, t)

C5_SameInvalidResponse ==
  [][ (/\ verify.st = "pending" /\ verify'.st = "done"
       /\ ~StorageError(verify'.res)
       /\ \/ C5_WrongCode(verify.body, verify.at)
          \/ C5_NoRecords(verify.body)
          \/ C5_Expired(verify.body, verify.at))
      => verify'.res = JsonValid(400, FALSE, MsgInvalid) ]_vars

C5_Witness ==
  /\ verify.st = "done" /\ verify.res = JsonValid(400, FALSE, MsgInvalid)
  /\ C5_Expired(verify.body, verify.at)

(* C6: issuance is additive.  An INSERT adds the row of its own request and   *)
(* keeps every other row; every accepted request whose INSERT succeeded and   *)
(* whose code is less than TTL old has its own row in the store and is found  *)
(* by the /verify-code SELECT.                                                *)
C6_Redeemable(i) ==
  /\ Row(i) \in store
  /\ Row(i) \in SelectValid(store, issues[i].normalizedEmail, Str(issues[i].code), now - TTL)

C6_Additive ==
  [][ /\ \A i \in DOMAIN issues :
           RunInsert(i, TRUE) =>
             /\ store \subseteq store'
             /\ Row(i) \notin store
             /\ store' = store \cup {Row(i)}
      /\ \A i \in DOMAIN issues' :
           (issues'[i].insert = "ok" /\ now' - issues'[i].createdAt < TTL)
             => C6_Redeemable(i)' ]_vars

C6_Witness ==
  /\ Len(issues) = 2
  /\ \A i \in {1, 2} : issues[i].insert = "ok" /\ C6_Redeemable(i)
  /\ issues[1].normalizedEmail = issues[2].normalizedEmail
  /\ issues[1].code # issues[2].code
  /\ issues[1].createdAt < issues[2].createdAt

(* C7: a failed delivery is answered 500 "Email failed to send." and leaves   *)
(* the request's row alone: while the code is less than TTL old the row is in *)
(* the store, unaltered, and the /verify-code SELECT finds it.                *)
C7_DeliveryFailureKeepsRow ==
  \A i \in DOMAIN issues :
    issues[i].mail = "failed" =>
      /\ issues[i].res = Json(500, MsgMailFailed)
      /\ (issues[i].insert = "ok" /\ now - issues[i].createdAt < TTL)
           => C6_Redeemable(i)

C7_Witness ==
  \E i \in DOMAIN issues :
    /\ issues[i].mail = "failed" /\ issues[i].insert = "ok"
    /\ now > issues[i].createdAt
    /\ C6_Redeemable(i)

(* C8: a failed INSERT is answered with the storage failure (500), and a      *)
(* request is answered with success only if its row has been persisted.       *)
C8_SuccessOnlyIfPersisted ==
  \A i \in DOMAIN issues :
    /\ issues[i].insert = "failed" => issues[i].res = Json(500, MsgStoreFailed)
    /\ issues[i].res = Json(200, MsgSent) => issues[i].insert = "ok"

(* C9: a /request-code body with company, username or email missing or empty  *)
(* is answered 400 and has no effect: no code, no INSERT, no mail, then or    *)
(* later.                                                                     *)
C9_Missing(body) ==
  \E f \in {"company", "username", "email"} :
    body[f].t = "undefined" \/ Len(body[f].s) = 0

C9_RejectedNoEffect ==
  [][ /\ (Len(issues') = Len(issues) + 1 /\ C9_Missing(issues'[Len(issues')].body)) =>
           /\ issues'[Len(issues')].res = Json(400, MsgRequired)
           /\ issues'[Len(issues')].code = <<>>
           /\ issues'[Len(issues')].insert = "none"
           /\ issues'[Len(issues')].mail = "none"
           /\ store' = store /\ mailbox' = mailbox
      /\ \A i \in DOMAIN issues :
           C9_Missing(issues[i].body) =>
             (issues'[i] = issues[i] /\ ~\E r \in store' : r.id = i) ]_vars

C9_Witness ==
  \E i \in DOMAIN issues :
    /\ issues[i].body.email = Str(<<>>)
    /\ issues[i].res = Json(400, MsgRequired)
    /\ store = {} /\ mailbox = {}

(* C10: a /verify-code body without email or without code is answered 400     *)
(* "Email and code are required." and the store is not queried for it.        *)
C10_MissingRejected ==
  (verify.st # "idle" /\ ~Given(verify.body)) =>
    /\ verify.st = "done"
    /\ ~verify.queried
    /\ verify.res = JsonValid(400, FALSE, MsgVerifyRequired)

(* C11: a /verify-code request changes nothing: neither the step that takes   *)
(* the request nor the step that answers it changes the store, the issued     *)
(* requests, the mail handed over or the pending sweeps; the row that made an *)
(* answer valid is still in the store after the answer, so the same email and *)
(* code are accepted again until the row is older than TTL.                   *)
C11_VerifyStep ==
  \/ verify.st # "pending" /\ verify'.st # "idle" /\ verify' # verify
  \/ verify.st = "pending" /\ verify'.st = "done"

C11_RedeemChangesNothing ==
  [][C11_VerifyStep =>
       /\ store' = store
       /\ issues' = issues
       /\ mailbox' = mailbox
       /\ sweeps' = sweeps
       /\ (Valid(verify'.res) =>
             \E r \in store' : Match(r, verify'.body, verify'.at))]_vars

\* a code issued in an earlier minute has been accepted and its row is kept
C11_Witness ==
  /\ verify.st = "done"
  /\ Valid(verify.res)
  /\ \E r \in store : Match(r, verify.body, verify.at) /\ r.created_at < verify.at

\* some handshake of the request succeeded
SmtpOk(hr) == \E k \in DOMAIN hr.outcomes : hr.outcomes[k]

(* C12: an answered /health request reports status ok with HTTP 200 exactly   *)
(* when its SELECT 1 succeeded and one of its transport handshakes succeeded; *)
(* when every handshake failed the report is HTTP 500, status error, smtp     *)
(* error, and database is ok or error as the SELECT 1 succeeded or failed.    *)
C12_HealthReport ==
  \A h \in HealthReqs :
    health[h].pc = "done" =>
      LET hr == health[h]
      IN /\ hr.res.status \in {200, 500}
         /\ hr.res.status = 200 <=> (~hr.dbErr /\ SmtpOk(hr))
         /\ hr.res.state = "ok" <=> (~hr.dbErr /\ SmtpOk(hr))
         /\ hr.res.state \in {"ok", "error"}
         /\ ~SmtpOk(hr) =>
              /\ hr.res.status = 500
              /\ hr.res.state = "error"
              /\ hr.res.smtp = "error"
              /\ hr.res.database = IF hr.dbErr THEN "error" ELSE "ok"

\* every handshake of a retried probe failed while the SELECT 1 succeeded
C12_Witness ==
  \E h \in HealthReqs :
    /\ health[h].pc = "done"
    /\ Len(health[h].outcomes) > 1
    /\ ~SmtpOk(health[h])
    /\ ~health[h].dbErr
    /\ health[h].res.status = 500
    /\ health[h].res.database = "ok"

\* handshakes invoked so far by a /health request: those that have called back
\* and the one in flight
Invoked(hr) == Len(hr.outcomes) + (IF hr.pc = "smtp" THEN 1 ELSE 0)

\* delays that have elapsed: the timers set, less the one still pending
Elapsed(hr) == hr.delays - (IF hr.pc = "delay" THEN 1 ELSE 0)

\* attempts follow one another with one delay in between, and none follows a
\* success
C13_Sequential(hr) ==
  /\ Invoked(hr) >= 1 => Elapsed(hr) = Invoked(hr) - 1
  /\ \A k \in DOMAIN hr.outcomes : hr.outcomes[k] => k = Invoked(hr)
  /\ SmtpOk(hr) => hr.pc = "done" /\ hr.smtpStatus = "ok"

(* C13 as stated: a /health request invokes the transport handshake at most   *)
(* 3 times (the first argument of verifySMTPWithRetry(3, 1000)), one after    *)
(* the other with one delay in between, never after a success, and answers    *)
(* smtp error only when all of them failed.                                   *)
C13_AtMostRetries ==
  \A h \in HealthReqs :
    /\ Invoked(health[h]) <= Retries
    /\ C13_Sequential(health[h])
    /\ health[h].smtpStatus = "error" => ~SmtpOk(health[h])

\* attempt(retries) runs attempt(n) for n = retries down to 0
Budget == IF impl = "part_000" THEN Retries + 1 ELSE 1

(* C13 amended: a /health request invokes the transport handshake at most     *)
(* retries + 1 = 4 times in part_000 (once in part_001), one after the other  *)
(* with one delay in between, never after a success, and answers smtp error   *)
(* only after that many handshakes have all failed.                           *)
C13_AtMostRetriesPlusOne ==
  \A h \in HealthReqs :
    /\ Invoked(health[h]) <= Budget
    /\ C13_Sequential(health[h])
    /\ health[h].smtpStatus = "error" =>
         ~SmtpOk(health[h]) /\ Len(health[h].outcomes) = Budget

\* a fourth handshake was made after three failures and delays
C13_Witness ==
  \E h \in HealthReqs :
    /\ health[h].pc = "done"
    /\ Len(health[h].outcomes) = Retries + 1
    /\ health[h].delays = Retries
    /\ health[h].smtpStatus = "error"

(* C14: when every SELECT 1, every handshake and every timer calls back, each *)
(* /health request that has arrived is eventually answered with one report,   *)
(* whatever the outcomes of the probes are.                                   *)
C14_HealthTerminates ==
  \A h \in HealthReqs :
    (health[h].pc # "idle") ~> (health[h].pc = "done" /\ health[h].sent = 1)

\* all the requests were answered after the transport failed at every attempt
C14_Witness ==
  \A h \in HealthReqs :
    /\ health[h].pc = "done"
    /\ health[h].sent = 1
    /\ Len(health[h].outcomes) = Budget
    /\ ~SmtpOk(health[h])

\* the characters of an issued code
CodeChars == {"0", "1", "2", "3", "4", "5", "6", "7", "8", "9", "A", "B", "C", "D", "E", "F"}

\* what request i hands to the mailer
Mail(i) == [to |-> ToLowerCase(issues[i].body.email.s), code |-> issues[i].code]

C16_PersistedBeforeMailed ==
  \A i \in DOMAIN issues :
    issues[i].mail # "none" => issues[i].insert = "ok"

(* C17: a reaper DELETE that fails leaves the store as it was and the process *)
(* running, so that requests are still served and the next tick sweeps again. *)
C17_FailedSweepSwallowed ==
  [][\A expiry \in sweeps :
       RunDelete(expiry, FALSE) => (store' = store /\ ~crashed')]_vars

\* the store as it would be had no sweep ever run: every row inserted so far
Unswept == { Row(i) : i \in { j \in DOMAIN issues : issues[j].insert = "ok" } }

\* a sweep deletes no row that a /verify-code request made at the sweep's tick
\* or later accepts
C18_SweepSparesValid ==
  \A expiry \in sweeps \ sweeps' :
    \A r \in store \ store' :
      \A t \in (expiry + TTL) .. MaxTime : ~(r.created_at > t - TTL)

(* C18 as stated: a sweep deletes no row that a /verify-code request made at  *)
(* its tick or later accepts, and every /verify-code request answered without *)
(* a storage error gets the verdict it would get had no sweep ever run.       *)
C18_SweepsInvisible ==
  [][/\ C18_SweepSparesValid
     /\ (Answered1 /\ ~StorageError(verify'.res)) =>
          (Valid(verify'.res) <=>
             \E r \in Unswept : Match(r, verify'.body, verify'.at))]_vars

(* C18 amended: a sweep deletes no row that a /verify-code request made at    *)
(* its tick or later accepts, and every /verify-code request answered without *)
(* a storage error, whose SELECT ran before the DELETE of any sweep that       *)
(* ticked after the request was made, gets the verdict it would get had no    *)
(* sweep ever run.                                                            *)
C18_SweepsInvisibleUnlessOvertaken ==
  [][/\ C18_SweepSparesValid
     /\ (Answered1 /\ ~StorageError(verify'.res) /\ ~verify'.overtaken) =>
          (Valid(verify'.res) <=>
             \E r \in Unswept : Match(r, verify'.body, verify'.at))]_vars

\* a sweep has deleted the row of the email and code that a later request
\* asks for, and the request is answered invalid, as it would be for the
\* expired row had it been kept
C18_Witness ==
  /\ verify.st = "done"
  /\ verify.queried
  /\ ~verify.overtaken
  /\ ~Valid(verify.res)
  /\ \E r \in Unswept \ store :
       /\ r.email = ToLowerCase(verify.body.email.s)
       /\ r.code = verify.body.code.s

(* C19: after any DELETEs have been applied to a store, in any order and with *)
(* any repetition, the store holds exactly the rows not older than the        *)
(* greatest of their cutoffs: applying a cutoff twice is applying it once,    *)
(* and two cutoffs give the same store in either order.                       *)
C19_PurgeAtMax ==
  Len(purge.applied) > 0 =>
    /\ purge.cur = { r \in purge.st0 :
                       \A k \in DOMAIN purge.applied : r.created_at >= purge.applied[k] }
    /\ \E k \in DOMAIN purge.applied :
         /\ \A j \in DOMAIN purge.applied : purge.applied[j] <= purge.applied[k]
         /\ purge.cur = { r \in purge.st0 : ~(r.created_at < purge.applied[k]) }

\* the greater cutoff was applied first, and the two removed some rows and
\* kept others
C19_Witness ==
  /\ Len(purge.applied) = 2
  /\ purge.applied[1] > purge.applied[2]
  /\ purge.cur # purge.st0
  /\ purge.cur # {}
  /\ \E r \in purge.st0 \ purge.cur : r.created_at >= purge.applied[2]

(* C20: every request is answered once: a /request-code request never has    *)
(* two responses and has one when neither its INSERT nor its mail is pending; *)
(* a /verify-code request has none while its SELECT is pending and one when   *)
(* it is done; a /health request has one response and one resolution of the   *)
(* transport promise when it is done, and none before.                        *)
C20_ExactlyOneResponse ==
  /\ \A i \in DOMAIN issues :
       /\ issues[i].sent <= 1
       /\ (issues[i].insert # "pending" /\ issues[i].mail # "pending") =>
            issues[i].sent = 1
  /\ verify.sent <= 1
  /\ verify.st = "pending" => verify.sent = 0
  /\ verify.st = "done" => verify.sent = 1
  /\ \A h \in HealthReqs :
       /\ health[h].sent <= 1
       /\ health[h].resolved <= 1
       /\ health[h].pc = "done" <=> health[h].sent = 1
       /\ health[h].pc = "done" <=> health[h].resolved = 1

\* a request whose INSERT failed, a /verify-code request and a /health request
\* have all been answered
C20_Witness ==
  /\ \E i \in DOMAIN issues :
       /\ issues[i].insert = "failed"
       /\ issues[i].mail # "pending"
       /\ issues[i].sent = 1
  /\ verify.st = "done"
  /\ verify.queried
  /\ verify.sent = 1
  /\ health[1].pc = "done"
  /\ health[1].resolved = 1

====
